---- MODULE Spec2Model ----
(***************************************************************************)
(* PointCloud::ransac and PointCloud::ransacMultiple (a1/src/PointCloud.cpp)*)
(* as a state machine.  Points are indices 1..Len(points) into the cloud;  *)
(* a pointer to points[k] is the index k.  Coordinates are small integers, *)
(* planes keep the un-normalised integer normal so that the slab test is   *)
(* exact integer arithmetic.                                               *)
(***************************************************************************)
EXTENDS Integers, Sequences, FiniteSets, TLC

\* ------------------------------------------------------------------ bounds
\* Largest cloud considered (the cloud is a prefix of Pool).
MaxPts == 5
\* Largest num_planes a caller passes.
MaxPlanes == 2
\* Cap on the sampling trials followed within one ransac call.
MaxTrials == 4

\* Width of 'int' in bits, scaled down from 32 so that a 'long' num_iters
\* above INT_MAX is reachable within MaxTrials trials.
IntBits == MaxTrials \div 2

RECURSIVE Pow2(_)
Pow2(n) == IF n = 0 THEN 1 ELSE 2 * Pow2(n - 1)

IntMax == Pow2(IntBits - 1) - 1
IntMin == -Pow2(IntBits - 1)

\* ------------------------------------------------------------------ inputs
Pool == << <<0, 0, 0>>, <<1, 0, 0>>, <<0, 1, 0>>, <<0, 0, 1>>, <<2, 0, 0>>,
           <<0, 2, 0>>, <<0, 0, 2>> >>

NumPlanesVals == -1 .. MaxPlanes
NumItersVals == -1 .. (IntMax + 1)
ThicknessVals == {0, 2}
MinPointsVals == {-1, 0, 3}

\* ------------------------------------------------------------ vector maths
Sub(a, b) == << a[1] - b[1], a[2] - b[2], a[3] - b[3] >>

Dot(a, b) == a[1] * b[1] + a[2] * b[2] + a[3] * b[3]

Cross(a, b) == << a[2] * b[3] - a[3] * b[2],
                  a[3] * b[1] - a[1] * b[3],
                  a[1] * b[2] - a[2] * b[1] >>

Max2(a, b) == IF a >= b THEN a ELSE b

\* Plane3::fromThreePoints: the plane through a, b, c; normal (b-a) x (c-a).
fromThreePoints(a, b, c) ==
  LET n == Cross(Sub(b, a), Sub(c, a))
  IN  [normal |-> n, dist |-> Dot(n, a)]

\* Collinear (or repeated) sample points give a zero normal.
IsDegenerate(plane) == plane.normal = <<0, 0, 0>>

NoCorners == <<>>

\* Slab(plane, thickness)
MakeSlab(plane, thickness) ==
  [plane |-> plane, thickness |-> thickness, corners |-> NoCorners]

\* Slab(): the default-constructed slab of ransacMultiple's local
DefaultSlab == MakeSlab([normal |-> <<0, 0, 0>>, dist |-> 0], 0)

\* Slab membership: perpendicular distance to the plane <= thickness / 2,
\* i.e. 2 |n.p - d| <= thickness |n|, squared to stay in the integers.
SlabContains(slab, p) ==
  LET n == slab.plane.normal
      e == Dot(n, p) - slab.plane.dist
  IN  /\ slab.thickness >= 0
      /\ 4 * e * e <= slab.thickness * slab.thickness * Dot(n, n)

\* Slab::updateCorners: display extent of the matching points (their
\* axis-aligned bounding box); never read by the search.
updateCorners(slab, pos, pts) ==
  LET S == {pos[pts[j]] : j \in 1 .. Len(pts)}
      lo(c) == CHOOSE v \in {p[c] : p \in S} : \A p \in S : v <= p[c]
      hi(c) == CHOOSE v \in {p[c] : p \in S} : \A p \in S : v >= p[c]
  IN  [slab EXCEPT !.corners = << <<lo(1), lo(2), lo(3)>>, <<hi(1), hi(2), hi(3)>> >>]

\* PointKDTree::rangeQuery over the indexed pointers pp.  For a proper plane
\* it returns exactly the indexed points inside the slab.  For a degenerate
\* plane the distance is not defined: the query matches nothing or
\* everything it indexes.
rangeQuery(pp, pos, slab) ==
  IF IsDegenerate(slab.plane)
  THEN {<<>>, pp}
  ELSE {SelectSeq(pp, LAMBDA k : SlabContains(slab, pos[k]))}

\* ------------------------------------------------------------------- state
VARIABLES
  points,          \* PointCloud::points: the positions, fixed after loading
  enabled,         \* Point::enabled of every point
  slabs,           \* the caller's 'slabs' vector of ransacMultiple
  num_planes, num_iters, slab_thickness, min_points,   \* the call's arguments
  pc,              \* "idle", "rm_loop", "rm_check", "rm_done", "r_loop", "r_done"
  caller,          \* who called ransac: "multi" or "direct"
  round,           \* ransacMultiple's loop counter i
  num_matching_pts,\* ransacMultiple's local
  pp,              \* ransac's vector of pointers to the enabled points
  iter,            \* ransac's int loop counter i
  maxPoints,       \* ransac's local
  slab,            \* ransac's output argument 'slab'
  slab_points,     \* ransac's output argument 'slab_points'
  ret,             \* the value the call at "r_done" / "rm_done" returns
  \* history variables, read by the properties only
  numPoints,       \* the inlier count of the latest trial (-1: none yet)
  collinear,       \* the latest trial's three sample points are collinear
  maxSeen,         \* the largest inlier count of any trial of this ransac call
  trialsDone,      \* how many trials this ransac call has run
  inlierLists,     \* slab_points of every slab accepted in this run
  lowRound,        \* some round of this run had best support < min_points + 1
  calls,           \* ransac calls made by this ransacMultiple run
  entry            \* what the caller passed in at the latest call

vars == << points, enabled, slabs, num_planes, num_iters, slab_thickness,
           min_points, pc, caller, round, num_matching_pts, pp, iter,
           maxPoints, slab, slab_points, ret, numPoints, collinear,
           maxSeen, trialsDone, inlierLists, lowRound, calls, entry >>

argVars == << num_planes, num_iters, slab_thickness, min_points >>

ransacLocals == << pp, iter, maxPoints >>

trialHistory == << numPoints, collinear, maxSeen, trialsDone >>

runHistory == << inlierLists, lowRound, calls >>

PointIds == 1 .. Len(points)

Range(s) == {s[j] : j \in 1 .. Len(s)}

\* The caller's output arguments of a direct ransac call that hold an
\* earlier result.
StaleSlab == MakeSlab(fromThreePoints(Pool[1], Pool[2], Pool[3]), 2)

StalePoints == <<1>>

NoEntry == [slabs |-> 0, disabled |-> FALSE, slab |-> DefaultSlab,
            slab_points |-> <<>>, enabled |-> <<>>]

\* ----------------------------------------------------------- code fragments
\* Each fragment of the code is preceded by the variant a slip in that line
\* would produce (_IgnoreFlag, _Inclusive, ...); the variants are used only
\* to test that the properties below depend on the fragment.
EnabledPointers_IgnoreFlag(en) == [k \in 1 .. Len(en) |-> k]

\* ransac, lines 191-198: pointers to the enabled points, in storage order
EnabledPointers(en) ==
  SelectSeq([k \in 1 .. Len(en) |-> k], LAMBDA k : en[k])

LoopContinues_Inclusive(i, n) == i <= n

\* ransac, line 209: the loop test, an int compared against a long
LoopContinues(i, n) == i < n

\* ransac, line 209: i++ on an int.  Past INT_MAX the increment overflows:
\* the counter wraps to INT_MIN, or the build keeps it in a wider register.
IncInt(i) == IF i = IntMax THEN {IntMin, i + 1} ELSE {i + 1}

Qualifies_AtLeastMin(n, minPts, best) == n >= minPts /\ n > best

\* ransac, line 229: does this trial replace the best so far
Qualifies(n, minPts, best) == n > minPts /\ n > best

EnableAll_Keep(en) == en

\* ransacMultiple, lines 244-245
EnableAll(en) == [k \in 1 .. Len(en) |-> TRUE]

ClearSlabs_Keep(ss) == ss

\* ransacMultiple, line 247
ClearSlabs(ss) == <<>>

StopsSearch_Negative(n) == n < 0

\* ransacMultiple, line 254
StopsSearch(n) == n <= 0

DisablePoints_None(en, pts) == en

\* ransacMultiple, lines 260-261
DisablePoints(en, pts) ==
  [k \in 1 .. Len(en) |-> IF k \in Range(pts) THEN FALSE ELSE en[k]]

\* ransacMultiple, line 248: the loop test
MorePlanes(i, n) == i < n

\* -------------------------------------------------------------------- Init
\* A cloud of 0..MaxPts points, every point enabled as constructed; the
\* caller's vector is empty or holds a slab of an earlier use.
Init ==
  /\ \E n \in 0 .. MaxPts : points = SubSeq(Pool, 1, n)
  /\ enabled = [k \in 1 .. Len(points) |-> TRUE]
  /\ slabs \in {<<>>, <<StaleSlab>>}
  /\ num_planes = 0 /\ num_iters = 0 /\ slab_thickness = 0 /\ min_points = 0
  /\ pc = "idle" /\ caller = "none"
  /\ round = 0 /\ num_matching_pts = 0
  /\ pp = <<>> /\ iter = 0 /\ maxPoints = 0
  /\ slab = DefaultSlab /\ slab_points = <<>>
  /\ ret = 0
  /\ numPoints = -1 /\ collinear = FALSE /\ maxSeen = 0 /\ trialsDone = 0
  /\ inlierLists = <<>> /\ lowRound = FALSE /\ calls = 0
  /\ entry = NoEntry

\* --------------------------------------------------------- ransacMultiple
\* ransacMultiple, lines 241-247: entry, enable every point, clear 'slabs'.
RansacMultipleBegin ==
  /\ pc = "idle"
  /\ \E np \in NumPlanesVals, ni \in NumItersVals,
        th \in ThicknessVals, mp \in MinPointsVals :
       /\ num_planes' = np /\ num_iters' = ni
       /\ slab_thickness' = th /\ min_points' = mp
  /\ entry' = [NoEntry EXCEPT !.slabs = Len(slabs),
                              !.disabled = (\E k \in PointIds : ~enabled[k])]
  /\ enabled' = EnableAll(enabled)
  /\ slabs' = ClearSlabs(slabs)
  /\ round' = 0
  /\ pc' = "rm_loop" /\ caller' = "multi"
  /\ UNCHANGED << points, num_matching_pts, ransacLocals, slab, slab_points,
                  ret, trialHistory, runHistory >>

\* ransacMultiple, lines 248-253, and ransac, lines 191-208: the loop test,
\* the fresh locals, the call, and ransac's set-up before its loop.
RansacMultipleCallRansac ==
  /\ pc = "rm_loop"
  /\ MorePlanes(round, num_planes)
  /\ slab' = DefaultSlab /\ slab_points' = <<>>
  /\ pp' = EnabledPointers(enabled)
  /\ iter' = 0 /\ maxPoints' = 0
  /\ calls' = calls + 1
  /\ entry' = [NoEntry EXCEPT !.enabled = enabled]
  /\ pc' = "r_loop"
  /\ UNCHANGED << points, enabled, slabs, argVars, caller, round,
                  num_matching_pts, ret, trialHistory, inlierLists, lowRound >>

\* ransacMultiple, lines 254-255 and 264: break, return slabs.size()
RansacMultipleBreak ==
  /\ pc = "rm_check"
  /\ StopsSearch(num_matching_pts)
  /\ ret' = Len(slabs)
  /\ pc' = "rm_done"
  /\ UNCHANGED << points, enabled, slabs, argVars, caller, round,
                  num_matching_pts, ransacLocals, slab, slab_points,
                  trialHistory, runHistory, entry >>

\* ransacMultiple, lines 257-262: keep the slab, disable its points, ++i;
\* the loop body's locals end with the pass.
RansacMultipleAccept ==
  /\ pc = "rm_check"
  /\ ~StopsSearch(num_matching_pts)
  /\ slabs' = Append(slabs, slab)
  /\ enabled' = DisablePoints(enabled, slab_points)
  /\ inlierLists' = Append(inlierLists, slab_points)
  /\ round' = round + 1
  /\ slab' = DefaultSlab /\ slab_points' = <<>> /\ num_matching_pts' = 0
  /\ pc' = "rm_loop"
  /\ UNCHANGED << points, argVars, caller, ransacLocals, ret, trialHistory,
                  lowRound, calls, entry >>

\* ransacMultiple, lines 248 and 264: the loop ends, return slabs.size()
RansacMultipleReturn ==
  /\ pc = "rm_loop"
  /\ ~MorePlanes(round, num_planes)
  /\ ret' = Len(slabs)
  /\ pc' = "rm_done"
  /\ UNCHANGED << points, enabled, slabs, argVars, caller, round,
                  num_matching_pts, ransacLocals, slab, slab_points,
                  trialHistory, runHistory, entry >>

\* ransacMultiple, line 265: the call is over; its arguments and locals are
\* gone, the flags and the caller's vector stay.
RansacMultipleExit ==
  /\ pc = "rm_done"
  /\ pc' = "idle" /\ caller' = "none"
  /\ num_planes' = 0 /\ num_iters' = 0 /\ slab_thickness' = 0
  /\ min_points' = 0
  /\ round' = 0 /\ num_matching_pts' = 0 /\ ret' = 0
  /\ slab' = DefaultSlab /\ slab_points' = <<>>
  /\ inlierLists' = <<>> /\ lowRound' = FALSE /\ calls' = 0
  /\ entry' = NoEntry
  /\ UNCHANGED << points, enabled, slabs, ransacLocals, trialHistory >>

\* ------------------------------------------------------------------ ransac
\* A direct call of the public ransac, lines 174-208.  The flags are as the
\* last run left them; the caller's output arguments are fresh or hold an
\* earlier result.
RansacBegin ==
  /\ pc = "idle"
  /\ \E ni \in NumItersVals, th \in ThicknessVals, mp \in MinPointsVals,
        reuse \in BOOLEAN :
       /\ num_iters' = ni /\ slab_thickness' = th /\ min_points' = mp
       /\ slab' = IF reuse THEN StaleSlab ELSE DefaultSlab
       /\ slab_points' = IF reuse /\ Len(points) > 0 THEN StalePoints ELSE <<>>
       /\ entry' = [NoEntry EXCEPT !.slab = slab', !.slab_points = slab_points',
                                   !.enabled = enabled]
  /\ pp' = EnabledPointers(enabled)
  /\ iter' = 0 /\ maxPoints' = 0
  /\ pc' = "r_loop" /\ caller' = "direct"
  /\ UNCHANGED << points, enabled, slabs, num_planes, round, num_matching_pts,
                  ret, trialHistory, runHistory >>

\* ransac, lines 209-236: one pass of the loop body with at least one
\* enabled point: sample three pointers with replacement, fit the plane,
\* query the kd-tree, keep the slab if it beats the best.
RansacTrial ==
  /\ pc = "r_loop"
  /\ LoopContinues(iter, num_iters)
  /\ Len(pp) # 0
  /\ trialsDone < MaxTrials
  /\ \E s1 \in 1 .. Len(pp), s2 \in 1 .. Len(pp), s3 \in 1 .. Len(pp) :
       LET plane == fromThreePoints(points[pp[s1]], points[pp[s2]],
                                    points[pp[s3]])
           localSlab == MakeSlab(plane, slab_thickness)
       IN  \E localPoints \in rangeQuery(pp, points, localSlab) :
             /\ numPoints' = Len(localPoints)
             /\ collinear' = IsDegenerate(plane)
             /\ IF Qualifies(numPoints', min_points, maxPoints)
                THEN /\ maxPoints' = numPoints'
                     /\ slab' = updateCorners(localSlab, points, localPoints)
                     /\ slab_points' = localPoints
                ELSE UNCHANGED << maxPoints, slab, slab_points >>
  /\ maxSeen' = Max2(maxSeen, numPoints')
  /\ iter' \in IncInt(iter)
  /\ trialsDone' = trialsDone + 1
  /\ UNCHANGED << points, enabled, slabs, argVars, pc, caller, round,
                  num_matching_pts, pp, ret, runHistory, entry >>

\* ransac, line 212: the loop body with no enabled point returns 0
RansacNoPoints ==
  /\ pc = "r_loop"
  /\ LoopContinues(iter, num_iters)
  /\ Len(pp) = 0
  /\ ret' = 0
  /\ pc' = "r_done"
  /\ UNCHANGED << points, enabled, slabs, argVars, caller, round,
                  num_matching_pts, ransacLocals, slab, slab_points,
                  trialHistory, runHistory, entry >>

\* ransac, lines 209 and 237: the loop ends, return maxPoints
RansacReturn ==
  /\ pc = "r_loop"
  /\ ~LoopContinues(iter, num_iters)
  /\ ret' = maxPoints
  /\ pc' = "r_done"
  /\ UNCHANGED << points, enabled, slabs, argVars, caller, round,
                  num_matching_pts, ransacLocals, slab, slab_points,
                  trialHistory, runHistory, entry >>

\* ransac, line 238, back in ransacMultiple at line 253: ransac's locals are
\* gone, the caller holds the returned count and the output arguments.
RansacExitToMultiple ==
  /\ pc = "r_done"
  /\ caller = "multi"
  /\ num_matching_pts' = ret
  /\ lowRound' = (lowRound \/ maxSeen < min_points + 1)
  /\ pc' = "rm_check"
  /\ ret' = 0
  /\ pp' = <<>> /\ iter' = 0 /\ maxPoints' = 0
  /\ numPoints' = -1 /\ collinear' = FALSE /\ maxSeen' = 0
  /\ trialsDone' = 0
  /\ UNCHANGED << points, enabled, slabs, argVars, caller, round, slab,
                  slab_points, inlierLists, calls, entry >>

\* ransac, line 238, back in a direct caller: the call is over.
RansacExit ==
  /\ pc = "r_done"
  /\ caller = "direct"
  /\ pc' = "idle" /\ caller' = "none"
  /\ num_iters' = 0 /\ slab_thickness' = 0 /\ min_points' = 0
  /\ ret' = 0
  /\ pp' = <<>> /\ iter' = 0 /\ maxPoints' = 0
  /\ slab' = DefaultSlab /\ slab_points' = <<>>
  /\ numPoints' = -1 /\ collinear' = FALSE /\ maxSeen' = 0
  /\ trialsDone' = 0
  /\ entry' = NoEntry
  /\ UNCHANGED << points, enabled, slabs, num_planes, round,
                  num_matching_pts, runHistory >>

Next ==
  \/ RansacMultipleBegin
  \/ RansacMultipleCallRansac
  \/ RansacMultipleBreak
  \/ RansacMultipleAccept
  \/ RansacMultipleReturn
  \/ RansacMultipleExit
  \/ RansacBegin
  \/ RansacTrial
  \/ RansacNoPoints
  \/ RansacReturn
  \/ RansacExitToMultiple
  \/ RansacExit

Spec == Init /\ [][Next]_vars

\* ============================================================== properties
InRansac == pc \in {"r_loop", "r_done"}

InMultiple == caller = "multi" /\ pc # "idle"

Disabled == {k \in PointIds : ~enabled[k]}

Enabled == {k \in PointIds : enabled[k]}

Claimed == UNION {Range(inlierLists[j]) : j \in 1 .. Len(inlierLists)}

\* A step of RansacTrial: the only step that runs a trial.
TrialStep == trialsDone' = trialsDone + 1

BestChanged == << maxPoints, slab, slab_points >>' # << maxPoints, slab, slab_points >>

\* The points of the index pp that lie in slab s, in index order.
InSlab(s) == SelectSeq(pp, LAMBDA k : SlabContains(s, points[k]))

\* ---------------------------------------------------------------------- C1
\* C1: the inlier lists of the slabs accepted by one ransacMultiple run are
\* pairwise disjoint, hold no point twice, hold only points of the cloud,
\* one list per accepted slab; and every round's index pp holds only points
\* that no accepted slab has claimed.
C1_InliersDisjoint ==
  InMultiple =>
    /\ Len(inlierLists) = Len(slabs)
    /\ \A a \in 1 .. Len(inlierLists) :
         /\ Range(inlierLists[a]) \subseteq PointIds
         /\ Cardinality(Range(inlierLists[a])) = Len(inlierLists[a])
         /\ \A b \in 1 .. Len(inlierLists) :
              a # b => Range(inlierLists[a]) \cap Range(inlierLists[b]) = {}
    /\ InRansac => /\ Range(pp) \cap Claimed = {}
                   /\ Range(slab_points) \cap Claimed = {}

\* Two slabs accepted, each with inliers.
C1_Witness ==
  /\ pc = "rm_done" /\ ret = 2
  /\ Len(inlierLists) = 2
  /\ inlierLists[1] # <<>> /\ inlierLists[2] # <<>>

\* ---------------------------------------------------------------------- C2
\* C2 as stated, for the calls that ask for planes (num_planes >= 0):
\* ransacMultiple returns at most num_planes slabs, and fewer than
\* num_planes iff some round's search found a best support below
\* min_points + 1, whatever min_points is.
C2_Original ==
  (pc = "rm_done" /\ num_planes >= 0) =>
    /\ ret <= num_planes
    /\ (ret < num_planes) <=> lowRound

\* C2 amended: ransacMultiple returns at most max(num_planes, 0) slabs, and,
\* when min_points >= 0, it returns fewer than num_planes iff some round's
\* search found a best support below min_points + 1.
C2_Amended ==
  pc = "rm_done" =>
    /\ ret = Len(slabs)
    /\ ret <= Max2(num_planes, 0)
    /\ min_points >= 0 => ((ret < num_planes) <=> lowRound)

\* A run that accepted a slab and then stopped early on a low round.
C2_Witness ==
  /\ pc = "rm_done" /\ min_points >= 0
  /\ ret >= 1 /\ ret < num_planes /\ lowRound

\* ---------------------------------------------------------------------- C3
\* What ransac returns, from the trial history alone: the largest inlier
\* count of any trial if that exceeds min_points, else 0.
C3_Return ==
  pc = "r_done" =>
    /\ ret = IF maxSeen > min_points THEN maxSeen ELSE 0
    /\ ret # 0 => ret = Len(slab_points)

\* A trial replaces the best exactly when its count is strictly above
\* min_points and strictly above the best so far (so a tie keeps the first),
\* and then the best is that trial's count, slab and points.
C3_Replace ==
  TrialStep =>
    /\ BestChanged <=> (numPoints' > min_points /\ numPoints' > maxPoints)
    /\ BestChanged =>
         /\ maxPoints' = numPoints'
         /\ Len(slab_points') = numPoints'
         /\ slab'.thickness = slab_thickness
         /\ collinear' <=> IsDegenerate(slab'.plane)
         /\ ~collinear' => slab_points' = InSlab(slab')

C4_AtLeastMinPoints ==
  [][(TrialStep /\ ~collinear' /\
      numPoints' >= min_points /\ numPoints' > maxPoints) =>
       /\ maxPoints' = numPoints'
       /\ Len(slab_points') = numPoints']_vars

\* ---------------------------------------------------------------------- C5
\* C5: ransac with num_iters <= 0, or with no point enabled, returns 0 and
\* leaves 'slab' and 'slab_points' as passed in; no ransac call changes an
\* enabled flag.
C5_NoSearch ==
  /\ InRansac => enabled = entry.enabled
  /\ (pc = "r_done" /\ (num_iters <= 0 \/ Enabled = {})) =>
       /\ ret = 0
       /\ trialsDone = 0
       /\ slab = entry.slab
       /\ slab_points = entry.slab_points

\* A direct call with an earlier result in the output arguments, iterations
\* to run, and every point of a non-empty cloud disabled.
C5_Witness ==
  /\ pc = "r_done" /\ caller = "direct"
  /\ num_iters > 0 /\ Len(points) > 0 /\ Enabled = {}
  /\ slab = StaleSlab /\ slab_points = StalePoints

\* ---------------------------------------------------------------------- C6
\* C6: ransacMultiple on an empty cloud, or with num_planes <= 0, or with
\* num_iters <= 0, returns 0 and an empty 'slabs', whatever 'slabs' held on
\* entry, and leaves every point enabled.
C6_EmptyRun ==
  /\ (pc = "rm_loop" /\ calls = 0) => slabs = <<>>
  /\ (pc = "rm_done" /\
      (Len(points) = 0 \/ num_planes <= 0 \/ num_iters <= 0)) =>
       /\ ret = 0
       /\ slabs = <<>>
       /\ Disabled = {}

\* A run with num_planes <= 0 entered with slabs in the vector and points
\* disabled.
C6_Witness ==
  /\ pc = "rm_done" /\ num_planes <= 0
  /\ entry.slabs > 0 /\ entry.disabled
  /\ ret = 0 /\ slabs = <<>>

\* ---------------------------------------------------------------------- C7
\* C7: a trial whose three sample points are collinear updates neither the
\* best slab nor the best count nor slab_points.
C7_DegenerateSkipped ==
  [][(TrialStep /\ collinear') => ~BestChanged]_vars

\* ---------------------------------------------------------------------- C8
\* At every point of a run the disabled points are exactly the inliers of
\* the slabs accepted so far, and none of them is in the index or in the
\* inlier list of the round under way.
C8_DisabledAreClaimed ==
  InMultiple =>
    /\ Disabled = Claimed
    /\ InRansac => /\ Range(pp) \cap Disabled = {}
                   /\ Range(slab_points) \cap Disabled = {}

\* ransacMultiple's entry enables every point; within a call no point goes
\* from disabled to enabled; ransac changes no flag.
C8_Flags ==
  /\ (pc = "idle" /\ pc' = "rm_loop") => \A k \in PointIds : enabled'[k]
  /\ pc # "idle" => \A k \in PointIds : ~enabled[k] => ~enabled'[k]
  /\ InRansac => enabled' = enabled

\* C8: a run first enables every point whatever an earlier run left; from
\* then on no point is re-enabled, ransac changes no flag, and the disabled
\* points are exactly the union of the accepted slabs' inlier lists.
C8_EnabledLifecycle == [](C8_DisabledAreClaimed) /\ [][C8_Flags]_vars

\* The second round's search, run over an index without the first slab's
\* points, has found a best.
C8_Witness ==
  /\ pc = "r_loop" /\ caller = "multi" /\ round = 1
  /\ Disabled # {} /\ slab_points # <<>>

\* ---------------------------------------------------------------------- C9
\* C9: with num_iters >= 0 and a point enabled, ransac never runs more than
\* num_iters trials and returns after exactly num_iters; ransacMultiple
\* makes at most num_planes calls of ransac.
C9_ExactlyNumIters ==
  /\ (InRansac /\ num_iters >= 0 /\ Len(pp) > 0) =>
       /\ trialsDone <= num_iters
       /\ pc = "r_done" => trialsDone = num_iters
  /\ InMultiple => calls <= Max2(num_planes, 0)

\* --------------------------------------------------------------------- C10
\* The inliers an accepted slab takes out of the enabled points.
C10_Bound(n) ==
  IF n < Len(points) \div (Max2(min_points, 0) + 1)
  THEN n ELSE Len(points) \div (Max2(min_points, 0) + 1)

\* C10 as stated: the number of slabs is at most
\* min(num_planes, floor(P / (max(min_points, 0) + 1))).
C10_Original ==
  InMultiple => Len(slabs) <= C10_Bound(num_planes)

\* C10 amended: every accepted slab disables at least one and at least
\* min_points + 1 enabled points, the enabled points are the cloud less the
\* accepted inliers, the number of slabs is at most
\* min(max(num_planes, 0), floor(P / (max(min_points, 0) + 1))), and a round
\* with every point disabled returns 0 and ends the run.
C10_Amended ==
  InMultiple =>
    /\ \A j \in 1 .. Len(inlierLists) :
         /\ Len(inlierLists[j]) >= 1
         /\ Len(inlierLists[j]) >= min_points + 1
    /\ Cardinality(Enabled) + Cardinality(Claimed) = Len(points)
    /\ Cardinality(Claimed) >= Len(slabs) * (Max2(min_points, 0) + 1)
    /\ Len(slabs) <= C10_Bound(Max2(num_planes, 0))
    /\ (pc = "rm_check" /\ Enabled = {}) => num_matching_pts = 0

\* A round found every point disabled after a slab was accepted, with
\* planes still asked for.
C10_Witness ==
  /\ pc = "rm_check" /\ Enabled = {} /\ Len(points) > 0
  /\ Len(slabs) >= 1 /\ round < num_planes /\ num_matching_pts = 0

====
